---- MODULE Spec2Model ----
(***************************************************************************)
(* Storage gateway of the property-management backend: UploadService       *)
(* (src/src/common/services/upload.service.ts).                            *)
(*                                                                         *)
(* Strings are sequences of tokens.  A token is a group of characters that *)
(* none of the string operations of the service splits: the separator "/", *)
(* a directory name, an owner id, a generated uuid, a file extension, a    *)
(* URL scheme, a host label.  Filesystem paths are sequences of segments,  *)
(* a segment being the token string between two separators.                *)
(***************************************************************************)
EXTENDS Integers, Sequences, FiniteSets, TLC

\* ------------------------------------------------------------------ bounds
\* Number of identifiers uuidv4() hands out in one run.
MaxIds == 2

\* ------------------------------------------------------ strings and paths
Throw == <<"<throw>">>
Undefined == <<"<undefined>">>

StartsWith(s, p) ==
  Len(s) >= Len(p) /\ SubSeq(s, 1, Len(p)) = p

\* s.startsWith('http'): the first token spells a word beginning with http
HttpTokens == {"http://", "https://", "httpfoo"}
startsWithHttp(s) == s # <<>> /\ s[1] \in HttpTokens

\* s.startsWith('/')
startsWithSlash(s) == s # <<>> /\ s[1] = "/"

\* s.split('/')
RECURSIVE SplitAcc(_, _, _)
SplitAcc(s, cur, out) ==
  IF s = <<>> THEN Append(out, cur)
  ELSE IF Head(s) = "/" THEN SplitAcc(Tail(s), <<>>, Append(out, cur))
  ELSE SplitAcc(Tail(s), Append(cur, Head(s)), out)
split(s) == SplitAcc(s, <<>>, <<>>)

\* localPath.split('/').pop() || ''
basename(s) == LET parts == split(s) IN parts[Len(parts)]

\* path.normalize on the segments of an absolute path: empty and "."
\* segments vanish, ".." removes the segment before it (never the root)
RECURSIVE Norm(_, _)
Norm(segs, acc) ==
  IF segs = <<>> THEN acc
  ELSE LET h == Head(segs) IN
    IF h = <<>> \/ h = <<".">> THEN Norm(Tail(segs), acc)
    ELSE IF h = <<"..">>
      THEN Norm(Tail(segs), IF acc = <<>> THEN <<>> ELSE SubSeq(acc, 1, Len(acc) - 1))
      ELSE Norm(Tail(segs), Append(acc, h))

\* process.cwd()
cwd == <<"/", "app">>

\* path.join(a, b): the normalized segments of a + '/' + b
join(a, b) == Norm(split(a \o <<"/">> \o b), <<>>)

\* path.extname(name): the extension token of the last segment, '' when the
\* name has none or consists of the dot-token alone; a TypeError when the
\* argument is not a string
ExtTokens == {".jpg", ".mp4", ".2 final"}
extname(name) ==
  IF name = Undefined THEN Throw
  ELSE LET b == basename(name) IN
    IF Len(b) >= 2 /\ b[Len(b)] \in ExtTokens THEN <<b[Len(b)]>> ELSE <<>>

\* Percent-encoding the URL parser applies to a path token
PctEncode(tok) == IF tok = ".2 final" THEN ".2%20final" ELSE tok

\* Dot-segment removal of the URL parser: unlike path.normalize it keeps
\* empty segments, and a trailing "." or ".." leaves an empty last segment
RECURSIVE UrlDots(_, _)
UrlDots(segs, acc) ==
  IF segs = <<>> THEN acc
  ELSE LET h == Head(segs)
           last == Len(segs) = 1
           popped == IF acc = <<>> THEN <<>> ELSE SubSeq(acc, 1, Len(acc) - 1)
       IN
    IF h = <<".">> THEN UrlDots(Tail(segs), IF last THEN Append(acc, <<>>) ELSE acc)
    ELSE IF h = <<"..">>
      THEN UrlDots(Tail(segs), IF last THEN Append(popped, <<>>) ELSE popped)
      ELSE UrlDots(Tail(segs), Append(acc, h))

\* segments -> '/' + seg1 + '/' + seg2 ...
RECURSIVE Unsplit(_)
Unsplit(segs) ==
  IF segs = <<>> THEN <<>> ELSE <<"/">> \o Head(segs) \o Unsplit(Tail(segs))

\* index of the first "/" at or after position i, 0 when there is none
RECURSIVE FirstSlash(_, _)
FirstSlash(s, i) ==
  IF i > Len(s) THEN 0 ELSE IF s[i] = "/" THEN i ELSE FirstSlash(s, i + 1)

\* new URL(s).pathname; Throw when s is not an absolute URL
pathname(s) ==
  IF ~(Len(s) >= 2 /\ s[1] \in {"http://", "https://"} /\ s[2] # "/") THEN Throw
  ELSE LET i == FirstSlash(s, 2) IN
    IF i = 0 THEN <<"/">>
    ELSE LET raw == SubSeq(s, i + 1, Len(s))
             enc == [k \in 1..Len(raw) |-> PctEncode(raw[k])]
             segs == UrlDots(split(enc), <<>>)
         IN IF segs = <<>> THEN <<"/">> ELSE Unsplit(segs)

\* s.match(/\.com\/(.+)$/): the text after the leftmost ".com/", <<>> (no
\* match) when ".com/" does not occur or nothing follows it
RECURSIVE ComAt(_, _)
ComAt(s, i) ==
  IF i + 2 > Len(s) THEN 0
  ELSE IF s[i] = ".com" /\ s[i + 1] = "/" THEN i ELSE ComAt(s, i + 1)
pathMatch(s) ==
  LET i == ComAt(s, 1) IN IF i = 0 THEN <<>> ELSE SubSeq(s, i + 2, Len(s))


\* ------------------------------------------------------------ vocabulary
Calls == {"c1", "c2"}
Kinds == {"profile", "property", "instagram"}
Owners == {"u1"}
MediaTypes == {"reel"}
FileTypes == {"image", "video"}
Names == {<<"a">>, <<"a", ".jpg">>, <<"a", ".2 final">>}

\* an Express.Multer.File, or no file at all
\* file.mimetype as the client declared it for a file of that name
declaredType(name) == IF name = <<"a", ".jpg">> THEN "image/jpeg" ELSE "video/mp4"
NoFile ==
  [present |-> FALSE, originalname |-> Undefined, buffer |-> "empty", mimetype |-> "unknown"]
Files ==
  {NoFile, [present |-> TRUE, originalname |-> <<"a", ".jpg">>, buffer |-> "empty",
            mimetype |-> "image/jpeg"]}
    \cup {[present |-> TRUE, originalname |-> n, buffer |-> "data",
           mimetype |-> declaredType(n)] : n \in Names \cup {Undefined}}

Null == <<"<null>">>
NoRef == <<"<none>">>

\* 'profile-images' | 'property-images' | 'instagram-media'
CategoryDir(kind) ==
  CASE kind = "profile" -> "profile-images"
    [] kind = "property" -> "property-images"
    [] kind = "instagram" -> "instagram-media"

\* `profile-images/${userId}/${uniqueFilename}` and its two siblings
blobPath(kind, owner, mediaType, uniqueFilename) ==
  IF kind = "instagram"
    THEN <<"instagram-media", "/", mediaType, "/", owner, "/">> \o uniqueFilename
    ELSE <<CategoryDir(kind), "/", owner, "/">> \o uniqueFilename

\* join(process.cwd(), 'uploads', category, [mediaType,] owner)
ownerDir(kind, owner, mediaType) ==
  IF kind = "instagram"
    THEN <<"uploads", "/", "instagram-media", "/", mediaType, "/", owner>>
    ELSE <<"uploads", "/", CategoryDir(kind), "/", owner>>

\* uuidv4(): the n-th identifier handed out
uuidConst(n) == "id1"
uuidv4(n) == "id" \o ToString(n)

\* The extension each save operation puts after the uuid; Throw when
\* path.extname is handed an undefined originalname
fileExtension(kind, vercel, file, mediaType, fileType) ==
  IF vercel \/ kind = "profile" THEN extname(file.originalname)
  ELSE IF kind = "property"
    THEN IF file.originalname # Undefined THEN extname(file.originalname)
         ELSE IF mediaType = "reel" THEN <<".mp4">> ELSE <<".jpg">>
    ELSE \* instagram, local branch
      LET dflt == IF fileType = "video" THEN <<".mp4">> ELSE <<".jpg">> IN
      IF file.originalname # Undefined
        THEN IF extname(file.originalname) # <<>> THEN extname(file.originalname) ELSE dflt
        ELSE dflt

\* The blob store: the URL it assigns to a key, and the key a del()
\* argument addresses (a URL of the store or a bare pathname)
BlobHost == <<"https://", "store.public.blob.vercel-storage", ".com", "/">>
blobUrl(key) == BlobHost \o key
blobKeyOf(arg) ==
  IF StartsWith(arg, BlobHost) THEN SubSeq(arg, Len(BlobHost) + 1, Len(arg)) ELSE arg

\* every ancestor directory of a path, the path itself included
Prefixes(p) == {SubSeq(p, 1, k) : k \in 0..Len(p)}

\* function f without the key k
WithoutAll(f, k) == [x \in {} |-> f[x]]
Without(f, k) == [x \in DOMAIN f \ {k} |-> f[x]]


\* ---------------------------------------------------------------- state
VARIABLES
  isVercel,   \* process.env.VERCEL === '1', read once by the constructor
  category,   \* the asset category the module owning this instance saves
  upload,     \* the file the callers of this run upload
  files,      \* local disk: file path -> bytes
  dirs,       \* local disk: the directories
  blobs,      \* blob store: key -> bytes
  nextId,     \* identifiers uuidv4() has handed out
  task,       \* the invocation running in each call slot
  last,       \* the invocation that completed most recently
  saved,      \* the saves that resolved, in order of completion
  deleted,    \* storage keys a delete removed
  chain,      \* the deletes issued, one after the other, on the reference
              \* the latest save returned
  profile,    \* profile_image of the user's profile document in the database
  req,        \* the profile-image request a profile service is handling
  media,      \* the media collection: record id -> media document
  mreq        \* the request MediaService is handling

vars == <<isVercel, category, upload, files, dirs, blobs, nextId, task, last, saved, deleted, chain,
          profile, req, media, mreq>>

\* existsSync
existsSync(p) == p \in DOMAIN files \/ p \in dirs

\* The directories new UploadService() makes sure exist
allDirsAlways(vercel) ==
  Prefixes(join(cwd, <<"uploads", "/", "property-images">>))
    \cup Prefixes(join(cwd, <<"uploads", "/", "profile-images">>))
constructorDirs(vercel) ==
  IF ~vercel
    THEN Prefixes(join(cwd, <<"uploads">>))
           \cup Prefixes(join(cwd, <<"uploads", "/", "property-images">>))
           \cup Prefixes(join(cwd, <<"uploads", "/", "profile-images">>))
    ELSE {}

\* put(blobPath, file.buffer, { access: 'public', contentType: file.mimetype })
NoPut == [key |-> <<>>, body |-> "none", access |-> "none", contentType |-> "none"]
putCallPrivate(key, file) ==
  [key |-> key, body |-> file.buffer, access |-> "private", contentType |-> file.mimetype]
putCall(key, file) ==
  [key |-> key, body |-> file.buffer, access |-> "public", contentType |-> file.mimetype]

\* A call slot with nothing running, and the fields of an invocation
Idle ==
  [pc |-> "idle", op |-> "none", kind |-> "profile", file |-> NoFile,
   owner |-> "u1", mediaType |-> "post", fileType |-> "image",
   arg |-> Null, shape |-> "none", target |-> NoRef, present0 |-> FALSE,
   key |-> <<>>, status |-> "none", error |-> "", ref |-> NoRef,
   attempts |-> <<>>, unlinked |-> <<>>, wrote |-> FALSE,
   envFail |-> FALSE, raises |-> 0, alone |-> TRUE, overlap |-> FALSE, chained |-> FALSE,
   tries |-> <<>>, put |-> NoPut]

NoChain == [ref |-> NoRef, kind |-> "profile", dels |-> <<>>]

Running(c) == task[c].pc # "idle"
OthersIdle(c) == \A d \in Calls \ {c} : ~Running(d)

\* ---------------------------------------------------------- local delete
\* !imageUrl
falsyNullOnly(arg) == arg = Null
falsy(arg) == arg = Null \/ arg = <<>>

\* Lines 597-620: the input reduced to a path below the working directory;
\* Throw when new URL() rejects it
localPathAlwaysPrefixed(arg, cat) ==
  LET l1 == IF startsWithHttp(arg) THEN pathname(arg) ELSE arg IN
  IF l1 = Throw THEN Throw
  ELSE LET l2 == IF startsWithSlash(l1) THEN Tail(l1) ELSE l1 IN
    <<"uploads", "/", cat, "/">> \o l2
localPathOf(arg, cat) ==
  LET l1 == IF startsWithHttp(arg) THEN pathname(arg) ELSE arg IN
  IF l1 = Throw THEN Throw
  ELSE LET l2 == IF startsWithSlash(l1) THEN Tail(l1) ELSE l1 IN
    IF ~StartsWith(l2, <<"uploads", "/">>)
      THEN IF StartsWith(l2, <<cat, "/">>)
             THEN <<"uploads", "/">> \o l2
             ELSE <<"uploads", "/", cat, "/">> \o l2
      ELSE l2

\* Lines 622 and 642-646: fullPath, then the alternative paths in order
candidatesAnyFile(localPath, cat) ==
  << join(cwd, localPath),
     join(cwd, <<"uploads", "/">> \o localPath),
     join(cwd, localPath),
     join(cwd, <<"uploads", "/", cat, "/">> \o basename(localPath)) >>
    \o (IF DOMAIN files = {} THEN <<>> ELSE <<CHOOSE p \in DOMAIN files : TRUE>>)
candidates(localPath, cat) ==
  << join(cwd, localPath),
     join(cwd, <<"uploads", "/">> \o localPath),
     join(cwd, localPath),
     join(cwd, <<"uploads", "/", cat, "/">> \o basename(localPath)) >>

\* index of the first candidate that exists, 0 when none does
RECURSIVE firstExisting(_, _)
firstExisting(cands, i) ==
  IF i > Len(cands) THEN 0
  ELSE IF existsSync(cands[i]) THEN i ELSE firstExisting(cands, i + 1)

\* The try block of the local branch: what it returns or that it threw,
\* and the file it unlinked.  unlinkSync throws on a directory and when
\* the filesystem fails (fault).
localDeleteTryLenient(arg, cat, fault) ==
  LET lp == localPathOf(arg, cat) IN
  IF lp = Throw THEN [status |-> "threw", unlinked |-> <<>>]
  ELSE LET cands == candidates(lp, cat)
           i == firstExisting(cands, 1)
       IN
    IF i = 0 THEN [status |-> "true", unlinked |-> <<>>]
    ELSE IF cands[i] \in dirs \/ fault THEN [status |-> "threw", unlinked |-> <<>>]
    ELSE [status |-> "true", unlinked |-> <<cands[i]>>]
localDeleteTry(arg, cat, fault) ==
  LET lp == localPathOf(arg, cat) IN
  IF lp = Throw THEN [status |-> "threw", unlinked |-> <<>>]
  ELSE LET cands == candidates(lp, cat)
           i == firstExisting(cands, 1)
       IN
    IF i = 0 THEN [status |-> "false", unlinked |-> <<>>]
    ELSE IF cands[i] \in dirs \/ fault THEN [status |-> "threw", unlinked |-> <<>>]
    ELSE [status |-> "true", unlinked |-> <<cands[i]>>]

\* Lines 672-676: the catch around the whole delete turns an exception
\* into the result false
catchNothing(status) == IF status = "threw" THEN "raised" ELSE status
catchAll(status) == IF status = "threw" THEN "false" ELSE status


\* ------------------------------------------------------------ bookkeeping
\* Slot c takes the invocation t (Idle when it completed at once); every
\* other running invocation is no longer alone, nor next in the chain
Enter(c, t) ==
  task' = [d \in Calls |->
             IF d = c THEN t
             ELSE IF ~Running(d) THEN task[d]
             ELSE [task[d] EXCEPT
                     !.alone = FALSE, !.chained = FALSE,
                     !.overlap = @ \/ (t.pc # "idle" /\ t.op = "save" /\ task[d].op = "save"
                                        /\ t.kind = task[d].kind /\ t.owner = task[d].owner)]]

\* Slot c completes with the record t
Complete(c, t) ==
  /\ last' = [t EXCEPT !.pc = "done"]
  /\ task' = [task EXCEPT ![c] = Idle]

\* the chain after a delete that was next in it completed with t
chainAfter(t) ==
  IF t.chained /\ ~t.envFail
    THEN [chain EXCEPT !.dels = Append(@, t.status)]
    ELSE NoChain

\* where the asset of a stored key lives
filePathFlat(t) == join(cwd \o <<"/", "uploads", "/", CategoryDir(t.kind)>>, basename(t.key))
filePathOf(t) == join(cwd \o <<"/">> \o ownerDir(t.kind, t.owner, t.mediaType), basename(t.key))
storageKeyOfRef(ref) ==
  IF isVercel THEN blobKeyOf(ref) ELSE join(cwd, <<"uploads", "/">> \o ref)
stored(k) == IF isVercel THEN k \in DOMAIN blobs ELSE k \in DOMAIN files
bytesAt(k) == IF isVercel THEN blobs[k] ELSE files[k]

\* ------------------------------------------------------------------ save
\* saveProfileImage / savePropertyImage / saveInstagramMedia up to the
\* point where the write stream or the upload is started
SaveBegin(c, kind, file, owner, mediaType, fileType, mkdirFails) ==
  /\ ~Running(c)
  /\ kind = category
  /\ file = upload
  /\ chain' = NoChain
  /\ UNCHANGED <<isVercel, category, upload, files, blobs, saved, deleted>>
  /\ \E t0 \in {[Idle EXCEPT
                   !.op = "save", !.kind = kind, !.file = file, !.owner = owner,
                   !.mediaType = mediaType, !.fileType = fileType,
                   !.alone = OthersIdle(c),
                   !.overlap = \E d \in Calls \ {c} :
                      /\ Running(d) /\ task[d].op = "save"
                      /\ task[d].kind = kind /\ task[d].owner = owner]} :
     \E dir \in {join(cwd, ownerDir(kind, owner, mediaType))} :
     \E needDir \in {~isVercel /\ ~existsSync(dir)} :
       /\ mkdirFails => needDir /\ file.present
       /\ IF ~file.present
            THEN \* if (!file) throw new Error('No file provided')
                 /\ last' = [t0 EXCEPT !.pc = "done", !.status = "rejected",
                                       !.error = "No file provided"]
                 /\ Enter(c, Idle)
                 /\ UNCHANGED <<dirs, nextId>>
          ELSE IF mkdirFails
            THEN \* mkdirSync throws
                 /\ last' = [t0 EXCEPT !.pc = "done", !.status = "rejected",
                                       !.error = "mkdir failed", !.envFail = TRUE,
                                       !.tries = <<"mkdir">>]
                 /\ Enter(c, Idle)
                 /\ UNCHANGED <<dirs, nextId>>
          ELSE
            /\ dirs' = IF needDir THEN dirs \cup Prefixes(dir) ELSE dirs
            /\ \E ext \in {fileExtension(kind, isVercel, file, mediaType, fileType)} :
                 IF ext = Throw
                   THEN \* path.extname(undefined) throws
                        /\ last' = [t0 EXCEPT !.pc = "done", !.status = "rejected",
                                              !.error = "TypeError", !.wrote = needDir,
                                              !.tries = IF needDir THEN <<"mkdir">> ELSE <<>>]
                        /\ Enter(c, Idle)
                        /\ UNCHANGED nextId
                   ELSE /\ nextId < MaxIds
                        /\ nextId' = nextId + 1
                        /\ \E key \in {blobPath(kind, owner, mediaType,
                                                 <<uuidv4(nextId + 1)>> \o ext)} :
                             Enter(c, [t0 EXCEPT
                               !.pc = IF isVercel THEN "put" ELSE "write",
                               !.wrote = needDir,
                               !.tries = (IF needDir THEN <<"mkdir">> ELSE <<>>)
                                           \o (IF isVercel THEN <<"put">> ELSE <<"open">>),
                               !.put = IF isVercel THEN putCall(key, file) ELSE NoPut,
                               !.key = key])
                        /\ UNCHANGED last

saveProfileImage(c, file, userId, mkdirFails) ==
  SaveBegin(c, "profile", file, userId, "post", "image", mkdirFails)

savePropertyImage(c, file, propertyId, mediaType, mkdirFails) ==
  SaveBegin(c, "property", file, propertyId, mediaType, "image", mkdirFails)

saveInstagramMedia(c, file, userId, mediaType, fileType, mkdirFails) ==
  SaveBegin(c, "instagram", file, userId, mediaType, fileType, mkdirFails)

\* the record of a save that resolved with ref, its asset stored under k
Resolved(c, ref, k) ==
  \E t \in {[task[c] EXCEPT !.status = "resolved", !.ref = ref, !.wrote = TRUE]} :
  /\ Complete(c, t)
  /\ saved' = Append(saved, [ref |-> ref, key |-> k, kind |-> t.kind, owner |-> t.owner,
                             bytes |-> t.file.buffer, overlap |-> t.overlap])
  /\ chain' = IF OthersIdle(c) THEN [ref |-> ref, kind |-> t.kind, dels |-> <<>>] ELSE NoChain

\* writeStream.on('finish'): the file is on disk, the promise resolves with
\* the category-relative path
WriteStreamFinish(c) ==
  /\ task[c].pc = "write"
  /\ \E fp \in {filePathOf(task[c])} :
       /\ files' = (fp :> task[c].file.buffer) @@ files
       /\ Resolved(c, task[c].key, fp)
  /\ UNCHANGED <<isVercel, category, upload, dirs, blobs, nextId, deleted>>

\* writeStream.on('error'): the promise rejects (the stream could not open
\* the file)
WriteStreamError(c) ==
  /\ task[c].pc = "write"
  /\ Complete(c, [task[c] EXCEPT !.status = "rejected", !.error = "write failed",
                                 !.envFail = TRUE])
  /\ chain' = NoChain
  /\ UNCHANGED <<isVercel, category, upload, files, dirs, blobs, nextId, saved, deleted>>

\* await put(blobPath, file.buffer, ...) resolves: return blob.url
PutResolve(c) ==
  /\ task[c].pc = "put"
  /\ blobs' = (task[c].put.key :> task[c].put.body) @@ blobs
  /\ Resolved(c, blobUrl(task[c].put.key), task[c].put.key)
  /\ UNCHANGED <<isVercel, category, upload, files, dirs, nextId, deleted>>

\* Lines 203-207: the catch around a save logs the error and throws it again
putRejectedRetry(t) ==
  IF Len(t.tries) < 2
    THEN [t EXCEPT !.tries = Append(@, "put"), !.envFail = TRUE]
    ELSE [t EXCEPT !.pc = "done", !.status = "rejected", !.error = "upload failed",
                   !.envFail = TRUE]
putRejected(t) ==
  [t EXCEPT !.pc = "done", !.status = "rejected", !.error = "upload failed",
            !.envFail = TRUE]

\* await put(...) rejects: the error propagates
PutReject(c) ==
  /\ task[c].pc = "put"
  /\ \E t \in {putRejected(task[c])} :
       IF t.pc = "done"
         THEN Complete(c, t)
         ELSE /\ task' = [task EXCEPT ![c] = t]
              /\ UNCHANGED last
  /\ chain' = NoChain
  /\ UNCHANGED <<isVercel, category, upload, files, dirs, blobs, nextId, saved, deleted>>


\* ---------------------------------------------------------------- delete
\* The references a caller may hand to delete: a reference a save returned,
\* reshaped, or handed to the delete of another category ("cross"), or a
\* value no save produced
LocalBase == <<"http://", "localhost:3000", "/">>
Shapes ==
  IF isVercel THEN {"asis", "bare", "slash"} ELSE {"asis", "slash", "url", "rooted"}
reshape(ref, shape) ==
  LET bare == IF isVercel THEN pathMatch(ref) ELSE ref IN
  CASE shape = "asis" -> ref
    [] shape = "bare" -> bare
    [] shape = "slash" -> <<"/">> \o bare
    [] shape = "url" -> LocalBase \o bare
    [] shape = "rooted" -> <<"uploads", "/">> \o bare
DeleteInputs(kind) ==
  { [arg |-> reshape(saved[i].ref, sh), shape |-> sh, target |-> saved[i].ref] :
      i \in {j \in 1..Len(saved) : saved[j].kind = kind}, sh \in Shapes }
  \cup { [arg |-> saved[i].ref, shape |-> "cross", target |-> saved[i].ref] :
           i \in {j \in 1..Len(saved) : saved[j].kind # kind} }
  \cup { [arg |-> Null, shape |-> "null", target |-> NoRef],
         [arg |-> <<>>, shape |-> "empty", target |-> NoRef],
         [arg |-> <<"httpfoo">>, shape |-> "badurl", target |-> NoRef],
         [arg |-> <<"..", "/", "..", "/", "package.json">>, shape |-> "dotdot",
          target |-> NoRef],
         [arg |-> <<"uploads", "/", "..", "/", "package.json">>, shape |-> "rooteddotdot",
          target |-> NoRef],
         [arg |-> LocalBase \o <<"..", "/", "..", "/", "package.json">>,
          shape |-> "urldotdot", target |-> NoRef],
         [arg |-> SubSeq(ownerDir(kind, "u1", "reel"), 3, Len(ownerDir(kind, "u1", "reel"))),
          shape |-> "dir", target |-> NoRef] }

\* Line 571: imageUrl.startsWith('/') ? imageUrl.substring(1) : imageUrl
directBlobPathUnstripped(arg) == arg
directBlobPath(arg) == IF startsWithSlash(arg) THEN Tail(arg) ELSE arg

\* Lines 518-571: the first del() of the remote branch: for a URL the text
\* after ".com/" if there is any, else the URL itself; for anything else
\* the input without its leading slash
firstDelFullUrl(arg) ==
  IF startsWithHttp(arg) THEN [pc |-> "del2", arg |-> arg]
  ELSE [pc |-> "delPath", arg |-> directBlobPath(arg)]
firstDel(arg) ==
  IF startsWithHttp(arg)
    THEN IF pathMatch(arg) # <<>>
           THEN [pc |-> "del1", arg |-> pathMatch(arg)]
           ELSE [pc |-> "del2", arg |-> arg]
    ELSE [pc |-> "delPath", arg |-> directBlobPath(arg)]

\* deleteProfileImage / deletePropertyImage / deleteInstagramMedia: the
\* whole call on the local backend, up to the first del() on the remote one
DeleteBegin(c, kind, in, fault) ==
  /\ ~Running(c)
  /\ kind = category \/ in.shape = "cross"
  /\ UNCHANGED <<isVercel, category, upload, dirs, blobs, nextId, saved>>
  /\ \E t0 \in {[Idle EXCEPT
                   !.op = "delete", !.kind = kind, !.arg = in.arg,
                   !.shape = in.shape, !.target = in.target,
                   !.present0 = in.target # NoRef /\ stored(storageKeyOfRef(in.target)),
                   !.alone = OthersIdle(c), !.envFail = fault,
                   !.chained = /\ chain.ref # NoRef /\ in.arg = chain.ref
                               /\ kind = chain.kind /\ OthersIdle(c)
                               /\ Len(chain.dels) < 2]} :
       IF falsy(in.arg)
         THEN /\ ~fault
              /\ last' = [t0 EXCEPT !.pc = "done", !.status = "false"]
              /\ Enter(c, Idle)
              /\ chain' = NoChain
              /\ UNCHANGED <<files, deleted>>
       ELSE IF ~isVercel
         THEN \E r0 \in {localDeleteTry(in.arg, CategoryDir(kind), FALSE)} :
              \E r \in {IF fault THEN [status |-> "threw", unlinked |-> <<>>] ELSE r0} :
              \E t \in {[t0 EXCEPT !.pc = "done", !.status = catchAll(r.status),
                                   !.unlinked = r.unlinked]} :
                \* the filesystem can only fail an unlink that was attempted
                /\ fault => r0.status = "true"
                /\ files' = IF r.unlinked # <<>> THEN Without(files, r.unlinked[1]) ELSE files
                /\ deleted' = deleted \cup {r.unlinked[i] : i \in 1..Len(r.unlinked)}
                /\ last' = t
                /\ chain' = chainAfter(t)
                /\ Enter(c, Idle)
       ELSE /\ ~fault
            /\ \E d \in {firstDel(in.arg)} :
                 Enter(c, [t0 EXCEPT !.pc = d.pc, !.attempts = <<d.arg>>])
            /\ chain' = IF t0.chained THEN chain ELSE NoChain
            /\ UNCHANGED <<files, deleted, last>>

deleteProfileImage(c, in, fault) == DeleteBegin(c, "profile", in, fault)
deletePropertyImage(c, in, fault) == DeleteBegin(c, "property", in, fault)
deleteInstagramMedia(c, in, fault) == DeleteBegin(c, "instagram", in, fault)

\* await del(x) resolves: the blob x addresses, if there is one, is gone;
\* the delete returns true
DelResolve(c) ==
  /\ task[c].pc \in {"del1", "del2", "delPath"}
  /\ \E k \in {blobKeyOf(task[c].attempts[Len(task[c].attempts)])} :
     \E done \in {[task[c] EXCEPT !.status = "true"]} :
       /\ blobs' = IF k \in DOMAIN blobs THEN Without(blobs, k) ELSE blobs
       /\ deleted' = IF k \in DOMAIN blobs THEN deleted \cup {k} ELSE deleted
       /\ Complete(c, done)
       /\ chain' = chainAfter(done)
  /\ UNCHANGED <<isVercel, category, upload, files, dirs, nextId, saved>>

\* await del(x) rejects: after the attempt by extracted key the full URL is
\* tried; after any other attempt the delete returns false
DelReject(c) ==
  LET t == task[c] IN
  /\ t.pc \in {"del1", "del2", "delPath"}
  /\ IF t.pc = "del1"
       THEN /\ task' = [task EXCEPT ![c] = [t EXCEPT !.pc = "del2", !.envFail = TRUE,
                                                    !.raises = @ + 1,
                                                    !.attempts = Append(@, t.arg)]]
            /\ UNCHANGED <<last, chain>>
       ELSE /\ Complete(c, [t EXCEPT !.status = "false", !.envFail = TRUE, !.raises = @ + 1])
            /\ chain' = NoChain
  /\ UNCHANGED <<isVercel, category, upload, files, dirs, blobs, nextId, saved, deleted>>

\* ------------------------------------------------------ profile services
\* UserProfileService.uploadProfileImage and
\* AdminProfileService.uploadUserProfileImage.  The save of the new image
\* runs in slot c1, the delete of the old one, which is not awaited, in c2.
NoReq ==
  [pc |-> "idle", op |-> "none", service |-> "none", userId |-> "u1", old |-> Null,
   oldPresent |-> FALSE, del |-> "none",
   delAtReturn |-> "none", save |-> "none", imageUrl |-> NoRef, db |-> "none",
   success |-> FALSE, cause |-> "none"]

\* the catch of the services: the request answers success: false
Failed(r, cause) ==
  [r EXCEPT !.pc = "done", !.success = FALSE, !.cause = cause, !.delAtReturn = r.del]

\* Up to the profile document being at hand: the admin service first looks
\* the user up among those the admin created; findOne may fail
UploadStart(service, userId, userFound, findFails) ==
  /\ req.pc \in {"idle", "done"}
  /\ \A c \in Calls : ~Running(c)
  /\ category = "profile"
  /\ \E r \in {[NoReq EXCEPT !.op = "upload", !.service = service, !.userId = userId]} :
       req' = IF ~userFound THEN Failed(r, "user not found")
              ELSE IF findFails THEN Failed(r, "find")
              ELSE [r EXCEPT !.pc = "found", !.old = profile]
  /\ UNCHANGED <<isVercel, category, upload, files, dirs, blobs, nextId, task, last,
                 saved, deleted, chain, profile, media, mreq>>

uploadProfileImage(userId, findFails) ==
  UploadStart("user", userId, TRUE, findFails)

uploadUserProfileImage(userId, userFound, findFails) ==
  UploadStart("admin", userId, userFound, findFails)

\* What the services do with the outcome of deleting the old image: the
\* call is not awaited and its result is not looked at
deleteOldThenGated(status) == IF status = "false" THEN "failed" ELSE "save"
deleteOldThen(status) == "save"

\* if (profile.profile_image) this.uploadService.deleteProfileImage(...)
DeleteOld(fault) ==
  /\ req.pc = "found"
  /\ IF falsy(req.old)
       THEN /\ ~fault
            /\ req' = [req EXCEPT !.pc = "save"]
            /\ UNCHANGED <<isVercel, category, upload, files, dirs, blobs, nextId, task,
                           last, saved, deleted, chain>>
       ELSE /\ deleteProfileImage("c2", [arg |-> req.old, shape |-> "asis",
                                         target |-> req.old], fault)
            /\ \E st \in {IF task'["c2"].pc = "idle" THEN last'.status ELSE "pending"} :
                 req' = IF deleteOldThen(st) = "save"
                          THEN [req EXCEPT !.pc = "save", !.del = st]
                          ELSE Failed([req EXCEPT !.del = st], "delete")
  /\ UNCHANGED <<profile, media, mreq>>

\* const imageUrl = await this.uploadService.saveProfileImage(file, userId),
\* up to the await
SaveNew(mkdirFails) ==
  /\ req.pc = "save"
  /\ saveProfileImage("c1", upload, req.userId, mkdirFails)
  /\ req' = IF task'["c1"].pc = "idle"
              THEN Failed([req EXCEPT !.save = "rejected"], "save")
              ELSE [req EXCEPT !.pc = "saving"]
  /\ UNCHANGED <<profile, media, mreq>>

\* the save settles: on a reference the service goes on to the database,
\* on an error to its catch
SaveSettled ==
  /\ req.pc = "saving"
  /\ \/ WriteStreamFinish("c1")
     \/ WriteStreamError("c1")
     \/ PutResolve("c1")
     \/ PutReject("c1")
  /\ req' = IF last'.status = "resolved"
              THEN [req EXCEPT !.pc = "db", !.save = "resolved", !.imageUrl = last'.ref]
              ELSE Failed([req EXCEPT !.save = "rejected"], "save")
  /\ UNCHANGED <<profile, media, mreq>>

\* if (await deleted) { ... } else { return { success: false, ... } }
afterDelete(r, status, present) ==
  IF status = "true"
    THEN [r EXCEPT !.pc = "dbClear", !.del = status, !.oldPresent = present]
    ELSE Failed([r EXCEPT !.del = status, !.oldPresent = present], "delete")

\* a del() of the gateway delete running in c2 settles: the unawaited
\* delete of an upload whatever the request is doing, the awaited delete
\* of a delete-image request
OldDeleteSettled ==
  /\ req.pc # "save"
  /\ DelResolve("c2") \/ DelReject("c2")
  /\ req' = IF task'["c2"].pc # "idle" THEN req
            ELSE IF req.pc = "deleting" THEN afterDelete(req, last'.status, last'.present0)
            ELSE [req EXCEPT !.del = last'.status]
  /\ UNCHANGED <<profile, media, mreq>>

\* UserProfileService.deleteProfileImage and
\* AdminProfileService.deleteUserProfileImage up to the profile document
\* being at hand: no user for this admin, no profile document or no image
\* on it end the request at once (one cause stands for the last two)
DeleteImageStart(service, userId, userFound, findFails) ==
  /\ req.pc \in {"idle", "done"}
  /\ \A c \in Calls : ~Running(c)
  /\ category = "profile"
  /\ \E r \in {[NoReq EXCEPT !.op = "deleteImage", !.service = service,
                              !.userId = userId]} :
       req' = IF ~userFound THEN Failed(r, "user not found")
              ELSE IF findFails THEN Failed(r, "find")
              ELSE IF falsy(profile) THEN Failed(r, "no image")
              ELSE [r EXCEPT !.pc = "foundDel", !.old = profile]
  /\ UNCHANGED <<isVercel, category, upload, files, dirs, blobs, nextId, task, last,
                 saved, deleted, chain, profile, media, mreq>>

deleteProfileImageOfUser(userId, findFails) ==
  DeleteImageStart("user", userId, TRUE, findFails)

deleteUserProfileImage(userId, userFound, findFails) ==
  DeleteImageStart("admin", userId, userFound, findFails)

\* const deleted = this.uploadService.deleteProfileImage(profile.profile_image)
DeleteImage(fault) ==
  /\ req.pc = "foundDel"
  /\ deleteProfileImage("c2", [arg |-> req.old, shape |-> "asis", target |-> req.old], fault)
  /\ req' = IF task'["c2"].pc = "idle"
              THEN afterDelete(req, last'.status, last'.present0)
              ELSE [req EXCEPT !.pc = "deleting"]
  /\ UNCHANGED <<profile, media, mreq>>

\* profile.profile_image = null; await profile.save()
ProfileClear(dbFails) ==
  /\ req.pc = "dbClear"
  /\ IF dbFails
       THEN /\ req' = Failed([req EXCEPT !.db = "rejected"], "db")
            /\ UNCHANGED profile
       ELSE /\ profile' = Null
            /\ req' = [req EXCEPT !.pc = "done", !.db = "resolved", !.success = TRUE,
                                  !.delAtReturn = req.del]
  /\ UNCHANGED <<isVercel, category, upload, files, dirs, blobs, nextId, task, last,
                 saved, deleted, chain, media, mreq>>

\* profile.profile_image = imageUrl; await profile.save()
ProfileSave(dbFails) ==
  /\ req.pc = "db"
  /\ IF dbFails
       THEN /\ req' = Failed([req EXCEPT !.db = "rejected"], "db")
            /\ UNCHANGED profile
       ELSE /\ profile' = req.imageUrl
            /\ req' = [req EXCEPT !.pc = "done", !.db = "resolved", !.success = TRUE,
                                  !.delAtReturn = req.del]
  /\ UNCHANGED <<isVercel, category, upload, files, dirs, blobs, nextId, task, last,
                 saved, deleted, chain, media, mreq>>

\* --------------------------------------------------------- media service
\* MediaService (create, updateStatus, remove) over the media collection;
\* its gateway calls run in slot c1
MediaCallers == {"u1", "u2"}
Admins == {"admin1"}
Statuses == {"pending", "approved", "rejected"}

NoMediaReq ==
  [pc |-> "idle", op |-> "none", caller |-> "u1", isAdmin |-> FALSE, id |-> "none",
   fileType |-> "image", url |-> NoRef, owner |-> "none", del |-> "none", save |-> "none",
   db |-> "none", result |-> "none", log |-> <<>>]

\* the request ends: with the value returned or the exception thrown
MediaDone(r, result) == [r EXCEPT !.pc = "done", !.result = result]

NoMediaChange ==
  UNCHANGED <<isVercel, category, upload, files, dirs, blobs, nextId, task, last,
              saved, deleted, chain, profile, req>>

MediaIdle ==
  /\ mreq.pc \in {"idle", "done"}
  /\ \A c \in Calls : ~Running(c)
  /\ category = "instagram"

\* file.mimetype.startsWith('image/') and .startsWith('video/')
mimeIsImage(m) == m = "image/jpeg"
mimeIsVideo(m) == m = "video/mp4"

\* create up to the call of saveInstagramMedia: the user is looked up, the
\* declared file type is compared with the mimetype, the dimensions are
\* validated
create(userId, fileType, userFound, findFails, dimsOk) ==
  /\ MediaIdle
  /\ \E r \in {[NoMediaReq EXCEPT !.op = "create", !.caller = userId,
                                   !.fileType = fileType]} :
       mreq' = IF findFails THEN MediaDone(r, "BadRequest")
               ELSE IF ~userFound THEN MediaDone(r, "NotFound")
               ELSE IF ~upload.present THEN MediaDone(r, "BadRequest")
               ELSE IF fileType = "image" /\ ~mimeIsImage(upload.mimetype)
                 THEN MediaDone(r, "BadRequest")
               ELSE IF fileType = "video" /\ ~mimeIsVideo(upload.mimetype)
                 THEN MediaDone(r, "BadRequest")
               ELSE IF ~dimsOk THEN MediaDone(r, "BadRequest")
               ELSE [r EXCEPT !.pc = "save"]
  /\ UNCHANGED media
  /\ NoMediaChange

\* const mediaUrl = await this.uploadService.saveInstagramMedia(...), up to
\* the await
MediaSave(mkdirFails) ==
  /\ mreq.pc = "save"
  /\ saveInstagramMedia("c1", upload, mreq.caller, "reel", mreq.fileType, mkdirFails)
  /\ mreq' = IF task'["c1"].pc = "idle"
               THEN MediaDone([mreq EXCEPT !.save = "rejected"], "BadRequest")
               ELSE [mreq EXCEPT !.pc = "saving"]
  /\ UNCHANGED <<profile, req, media>>

\* the save settles
MediaSaveSettled ==
  /\ mreq.pc = "saving"
  /\ \/ WriteStreamFinish("c1")
     \/ WriteStreamError("c1")
     \/ PutResolve("c1")
     \/ PutReject("c1")
  /\ mreq' = IF last'.status = "resolved"
               THEN [mreq EXCEPT !.pc = "insert", !.save = "resolved", !.url = last'.ref]
               ELSE MediaDone([mreq EXCEPT !.save = "rejected"], "BadRequest")
  /\ UNCHANGED <<profile, req, media>>

\* new this.mediaModel({ url, status: MediaStatus.PENDING, user_id, ... })
newMediaApproved(url, userId) ==
  [url |-> url, user_id |-> userId, status |-> "approved",
   approved_by |-> "none", approved_at |-> "none",
   rejected_by |-> "none", rejected_at |-> "none"]
newMedia(url, userId) ==
  [url |-> url, user_id |-> userId, status |-> "pending",
   approved_by |-> "none", approved_at |-> "none",
   rejected_by |-> "none", rejected_at |-> "none"]

\* return await newMedia.save(); the catch turns a failure into
\* BadRequestException and does nothing else
MediaInsert(dbFails) ==
  /\ mreq.pc = "insert"
  /\ \E id \in {"m" \o ToString(nextId)} :
       IF dbFails
         THEN /\ mreq' = MediaDone([mreq EXCEPT !.db = "rejected"], "BadRequest")
              /\ UNCHANGED media
         ELSE /\ media' = (id :> newMedia(mreq.url, mreq.caller)) @@ media
              /\ mreq' = MediaDone([mreq EXCEPT !.db = "resolved", !.id = id], "created")
  /\ NoMediaChange

\* Lines 420-429 of updateStatus: the status and the fields that go with it
setStatusOnly(rec, status, adminId) == [rec EXCEPT !.status = status]
setStatus(rec, status, adminId) ==
  IF status = "approved"
    THEN [rec EXCEPT !.status = status, !.approved_by = adminId, !.approved_at = "now"]
  ELSE IF status = "rejected"
    THEN [rec EXCEPT !.status = status, !.rejected_by = adminId, !.rejected_at = "now"]
  ELSE [rec EXCEPT !.status = status]

\* updateStatus: findById, the update, media.save(); a status outside the
\* enum fails the schema validation of save()
updateStatus(id, status, adminId, findFails, dbFails) ==
  /\ MediaIdle
  /\ \E r \in {[NoMediaReq EXCEPT !.op = "updateStatus", !.caller = adminId, !.id = id]} :
       IF findFails
         THEN /\ mreq' = MediaDone([r EXCEPT !.db = "rejected"], "BadRequest")
              /\ UNCHANGED media
       ELSE IF id \notin DOMAIN media
         THEN /\ mreq' = MediaDone(r, "NotFound")
              /\ UNCHANGED media
       ELSE IF dbFails \/ status \notin Statuses
         THEN /\ mreq' = MediaDone([r EXCEPT !.db = "rejected"], "BadRequest")
              /\ UNCHANGED media
         ELSE /\ media' = [media EXCEPT ![id] = setStatus(@, status, adminId)]
              /\ mreq' = MediaDone([r EXCEPT !.db = "resolved"], "updated")
  /\ NoMediaChange

\* remove, the query: { _id: id } and, unless isAdmin, user_id: userId
queryAnyOwner(id, userId, isAdmin) == id \in DOMAIN media
queryMatches(id, userId, isAdmin) ==
  id \in DOMAIN media /\ (isAdmin \/ media[id].user_id = userId)

\* remove up to the record being at hand
remove(id, userId, isAdmin, findFails) ==
  /\ MediaIdle
  /\ \E r \in {[NoMediaReq EXCEPT
                    !.op = "remove", !.caller = userId, !.isAdmin = isAdmin, !.id = id,
                    !.owner = IF id \in DOMAIN media THEN media[id].user_id ELSE "none"]} :
       mreq' = IF findFails THEN MediaDone([r EXCEPT !.db = "rejected"], "BadRequest")
               ELSE IF ~queryMatches(id, userId, isAdmin) THEN MediaDone(r, "NotFound")
               ELSE [r EXCEPT !.pc = "found", !.url = media[id].url]
  /\ UNCHANGED media
  /\ NoMediaChange

\* What remove does once the storage delete has returned: the result is not
\* looked at
afterStorageDeleteGated(r, status) ==
  IF status = "true"
    THEN [r EXCEPT !.pc = "deleteOne", !.del = status, !.log = Append(@, "storage settled")]
    ELSE MediaDone([r EXCEPT !.del = status, !.log = Append(@, "storage settled")],
                   "BadRequest")
afterStorageDelete(r, status) ==
  [r EXCEPT !.pc = "deleteOne", !.del = status, !.log = Append(@, "storage settled")]

\* await this.uploadService.deleteInstagramMedia(media.url), up to the await
MediaDelete(fault) ==
  /\ mreq.pc = "found"
  /\ deleteInstagramMedia("c1", [arg |-> mreq.url, shape |-> "asis",
                                 target |-> mreq.url], fault)
  /\ \E r \in {[mreq EXCEPT !.log = Append(@, "storage delete")]} :
       mreq' = IF task'["c1"].pc = "idle"
                 THEN afterStorageDelete(r, last'.status)
                 ELSE [r EXCEPT !.pc = "deleting"]
  /\ UNCHANGED <<profile, req, media>>

\* a del() of the storage delete settles
MediaDeleteSettled ==
  /\ mreq.pc = "deleting"
  /\ DelResolve("c1") \/ DelReject("c1")
  /\ mreq' = IF task'["c1"].pc = "idle" THEN afterStorageDelete(mreq, last'.status)
             ELSE mreq
  /\ UNCHANGED <<profile, req, media>>

\* await this.mediaModel.deleteOne({ _id: id }); return { deleted: true }
MediaDeleteOne(dbFails) ==
  /\ mreq.pc = "deleteOne"
  /\ IF dbFails
       THEN /\ mreq' = MediaDone([mreq EXCEPT !.db = "rejected"], "BadRequest")
            /\ UNCHANGED media
       ELSE /\ media' = Without(media, mreq.id)
            /\ mreq' = MediaDone([mreq EXCEPT !.db = "resolved",
                                              !.log = Append(@, "record delete")], "deleted")
  /\ NoMediaChange

\* -------------------------------------------------------- specification
\* The state once the gateway is constructed, fs being the files the
\* working directory holds
InitWith(fs) ==
  /\ isVercel \in BOOLEAN
  /\ category \in Kinds
  /\ upload \in Files
  /\ files = fs
  /\ dirs = Prefixes(join(cwd, <<>>)) \cup constructorDirs(isVercel)
  /\ blobs = <<>>
  /\ nextId = 0
  /\ task = [c \in Calls |-> Idle]
  /\ last = Idle
  /\ saved = <<>>
  /\ deleted = {}
  /\ chain = NoChain
  /\ profile = Null
  /\ req = NoReq
  /\ media = <<>>
  /\ mreq = NoMediaReq

Init == InitWith(<<>>)

\* The gateway called directly, the profile services handling no request:
\* one step of an invocation running in a slot of S; delete is handed
\* references of the shapes Sh, the environment fails as Env allows
Step(S, Sh, Env) ==
  \/ /\ \E c \in S, f \in Files, o \in Owners, mk \in Env :
          saveProfileImage(c, f, o, mk)
     /\ UNCHANGED <<profile, req, media, mreq>>
  \/ /\ \E c \in S, f \in Files, o \in Owners, mt \in MediaTypes, mk \in Env :
          savePropertyImage(c, f, o, mt, mk)
     /\ UNCHANGED <<profile, req, media, mreq>>
  \/ /\ \E c \in S, f \in Files, o \in Owners, mt \in MediaTypes, ft \in FileTypes,
           mk \in Env :
          saveInstagramMedia(c, f, o, mt, ft, mk)
     /\ UNCHANGED <<profile, req, media, mreq>>
  \/ /\ \E c \in S : WriteStreamFinish(c)
     /\ UNCHANGED <<profile, req, media, mreq>>
  \/ /\ \E c \in S : WriteStreamError(c)
     /\ UNCHANGED <<profile, req, media, mreq>>
  \/ /\ \E c \in S : PutResolve(c)
     /\ UNCHANGED <<profile, req, media, mreq>>
  \/ /\ \E c \in S : PutReject(c)
     /\ UNCHANGED <<profile, req, media, mreq>>
  \/ /\ \E c \in S, fault \in Env : \E in \in {x \in DeleteInputs("profile") : x.shape \in Sh} :
          deleteProfileImage(c, in, fault)
     /\ UNCHANGED <<profile, req, media, mreq>>
  \/ /\ \E c \in S, fault \in Env : \E in \in {x \in DeleteInputs("property") : x.shape \in Sh} :
          deletePropertyImage(c, in, fault)
     /\ UNCHANGED <<profile, req, media, mreq>>
  \/ /\ \E c \in S, fault \in Env : \E in \in {x \in DeleteInputs("instagram") : x.shape \in Sh} :
          deleteInstagramMedia(c, in, fault)
     /\ UNCHANGED <<profile, req, media, mreq>>
  \/ /\ \E c \in S : DelResolve(c)
     /\ UNCHANGED <<profile, req, media, mreq>>
  \/ /\ \E c \in S : DelReject(c)
     /\ UNCHANGED <<profile, req, media, mreq>>

\* Invocations one after the other, every input shape
AllShapes == {"asis", "bare", "slash", "url", "rooted", "null", "empty", "badurl", "dir"}
Next == Step({"c1"}, AllShapes, BOOLEAN)
Spec == Init /\ [][Next]_vars

\* Invocations one after the other, a reference also handed to the delete
\* of a category other than the one it was saved under
NextCross == Step({"c1"}, {"asis", "slash", "cross"}, {FALSE})
SpecCross == Init /\ [][NextCross]_vars

\* Invocations one after the other in a working directory that holds the
\* application's package.json next to uploads/, references with ".."
\* segments among the inputs of delete
InitDisk == InitWith(join(cwd, <<"package.json">>) :> "data")
NextDisk == Step({"c1"}, {"asis", "dotdot", "rooteddotdot", "urldotdot"}, {FALSE})
SpecDisk == InitDisk /\ [][NextDisk]_vars

\* Two invocations at a time
InitConc ==
  Init /\ upload = [present |-> TRUE, originalname |-> <<"a", ".jpg">>, buffer |-> "data",
                    mimetype |-> "image/jpeg"]
NextConc == Step(Calls, {"asis"}, {FALSE})
SpecConc == InitConc /\ [][NextConc]_vars


\* Profile-image requests, one after the other
InitProfile == Init /\ category = "profile"
NextProfile ==
  \/ \E u \in Owners, ff \in BOOLEAN : uploadProfileImage(u, ff)
  \/ \E u \in Owners, uf \in BOOLEAN, ff \in BOOLEAN : uploadUserProfileImage(u, uf, ff)
  \/ \E fault \in BOOLEAN : DeleteOld(fault)
  \/ \E mk \in BOOLEAN : SaveNew(mk)
  \/ SaveSettled
  \/ OldDeleteSettled
  \/ \E dbFails \in BOOLEAN : ProfileSave(dbFails)
  \/ \E u \in Owners, ff \in BOOLEAN : deleteProfileImageOfUser(u, ff)
  \/ \E u \in Owners, uf \in BOOLEAN, ff \in BOOLEAN : deleteUserProfileImage(u, uf, ff)
  \/ \E fault \in BOOLEAN : DeleteImage(fault)
  \/ \E dbFails \in BOOLEAN : ProfileClear(dbFails)
SpecProfile == InitProfile /\ [][NextProfile]_vars


\* Media requests, one after the other
InitMedia ==
  /\ Init
  /\ category = "instagram"
  /\ upload = [present |-> TRUE, originalname |-> <<"a", ".jpg">>, buffer |-> "data",
               mimetype |-> "image/jpeg"]
NextMedia ==
  \/ \E u \in Owners, ft \in FileTypes, uf \in BOOLEAN, ff \in BOOLEAN, ok \in BOOLEAN :
       create(u, ft, uf, ff, ok)
  \/ \E mk \in BOOLEAN : MediaSave(mk)
  \/ MediaSaveSettled
  \/ \E dbFails \in BOOLEAN : MediaInsert(dbFails)
  \/ \E id \in DOMAIN media \cup {"missing"}, u \in MediaCallers, adm \in BOOLEAN,
        ff \in BOOLEAN :
       remove(id, u, adm, ff)
  \/ \E fault \in BOOLEAN : MediaDelete(fault)
  \/ MediaDeleteSettled
  \/ \E dbFails \in BOOLEAN : MediaDeleteOne(dbFails)
SpecMedia == InitMedia /\ [][NextMedia]_vars

\* Moderation of the records created
InitModeration == InitMedia
NextModeration ==
  \/ \E u \in Owners, ft \in FileTypes, uf \in BOOLEAN, ff \in BOOLEAN, ok \in BOOLEAN :
       create(u, ft, uf, ff, ok)
  \/ \E mk \in BOOLEAN : MediaSave(mk)
  \/ MediaSaveSettled
  \/ \E dbFails \in BOOLEAN : MediaInsert(dbFails)
  \/ \E id \in DOMAIN media \cup {"missing"}, st \in Statuses \cup {"bogus"},
        a \in Admins, ff \in BOOLEAN, dbFails \in BOOLEAN :
       updateStatus(id, st, a, ff, dbFails)
SpecModeration == InitModeration /\ [][NextModeration]_vars


\* ---------------------------------------------------------------- claims
\* the last token of a reference
lastToken(ref) == ref[Len(ref)]
DataJpg ==
  [present |-> TRUE, originalname |-> <<"a", ".jpg">>, buffer |-> "data",
   mimetype |-> "image/jpeg"]

\* C1: a save that resolved, followed at once by the matching delete on the
\* reference it returned (the backend raising nothing): the delete returns
\* true and the asset is no longer in storage.
C1_RoundTrip ==
  (chain.ref # NoRef /\ Len(chain.dels) >= 1)
    => (chain.dels[1] = "true" /\ ~stored(storageKeyOfRef(chain.ref)))
C1_Witness ==
  /\ chain.ref # NoRef /\ chain.dels = <<"true">>
  /\ last.op = "delete" /\ last.arg = chain.ref /\ last.present0

\* C2: delete handed the empty string or null returns false, unlinks no
\* file and issues no del() to the blob store, on either backend.
C2_EmptyReference ==
  (last.op = "delete" /\ (last.arg = <<>> \/ last.arg = Null))
    => (last.status = "false" /\ last.attempts = <<>> /\ last.unlinked = <<>>)
C2_Witness ==
  last.op = "delete" /\ last.arg = <<>> /\ last.status = "false" /\ Len(saved) >= 1

\* C3: the saves of one owner and category that resolved, however they
\* interleaved, returned pairwise distinct references naming pairwise
\* distinct storage keys, and each asset holds the bytes of its own save
\* until a delete removes it.
C3_DistinctReferences ==
  /\ \A i, j \in 1..Len(saved) :
       i # j => (saved[i].ref # saved[j].ref /\ saved[i].key # saved[j].key)
  /\ \A i \in 1..Len(saved) :
       IF stored(saved[i].key) THEN bytesAt(saved[i].key) = saved[i].bytes
       ELSE saved[i].key \in deleted
C3_Witness ==
  /\ Len(saved) = 2
  /\ saved[1].overlap /\ saved[2].overlap
  /\ saved[1].owner = saved[2].owner /\ saved[1].kind = saved[2].kind
  /\ stored(saved[1].key) /\ stored(saved[2].key)

\* C4: local backend, a file a save stored: delete returns true and removes
\* it, given the bare relative path, the path with a leading slash, or a
\* full URL whose path is that path.
C4_LocalShapes ==
  (/\ ~isVercel /\ last.op = "delete" /\ last.shape \in {"asis", "slash", "url"}
   /\ last.present0 /\ ~last.envFail)
    => (last.status = "true" /\ ~stored(storageKeyOfRef(last.target)))

\* C5: remote backend, an asset present in the blob store: delete returns
\* true, and the asset is gone, given the URL save returned or its bare key
\* with or without a leading slash, unless del() raised.
C5_RemoteShapes ==
  (/\ isVercel /\ last.op = "delete" /\ last.shape \in {"asis", "bare", "slash"}
   /\ last.present0)
    => /\ ~last.envFail => last.status = "true"
       /\ last.status = "true" => ~stored(storageKeyOfRef(last.target))
C5_Witness ==
  /\ isVercel /\ last.op = "delete" /\ last.shape = "slash" /\ last.present0
  /\ last.status = "true" /\ last.attempts = <<blobKeyOf(last.target)>>

\* C6: saveInstagramMedia of a file whose name has no extension returns a
\* reference ending in .mp4 for a video and in .jpg for an image, on
\* either backend.
C6_ExtensionInference ==
  (/\ last.op = "save" /\ last.kind = "instagram" /\ last.status = "resolved"
   /\ extname(last.file.originalname) = <<>>)
    => lastToken(last.ref) = (IF last.fileType = "video" THEN ".mp4" ELSE ".jpg")

\* C7: save a profile image for u1, delete the reference, delete it again:
\* the reference is profile-images/u1/<uuid>.jpg (local) or an absolute URL
\* containing it (remote), the first delete returns true and the second
\* false, on both backends.
C7_DeleteTwice ==
  (/\ chain.ref # NoRef /\ chain.kind = "profile" /\ upload = DataJpg
   /\ Len(chain.dels) = 2)
    => /\ chain.dels = <<"true", "false">>
       /\ \E n \in 1..MaxIds :
            LET rel == <<"profile-images", "/", "u1", "/", uuidv4(n), ".jpg">> IN
            chain.ref = (IF isVercel THEN blobUrl(rel) ELSE rel)

\* C8: a save invoked with no file, or with a file whose buffer is empty,
\* fails with 'No file provided' and nothing is written or uploaded (the
\* filesystem and the blob store failing nothing).
C8_NoFileProvided ==
  (last.op = "save" /\ (~last.file.present \/ last.file.buffer = "empty") /\ ~last.envFail)
    => (last.status = "rejected" /\ last.error = "No file provided" /\ ~last.wrote)

\* C9: no delete raises: whatever the input and whatever the backend does,
\* it completes with true or false, and with false when the reference is
\* not a URL although it starts with http, when it names a directory, when
\* its asset is missing on disk, when unlinking failed, and when every
\* del() it issued raised.
C9_DeleteNeverRaises ==
  last.op = "delete" =>
    /\ last.status \in {"true", "false"}
    /\ (~falsy(last.arg) /\ isVercel /\ last.raises = Len(last.attempts))
         => last.status = "false"
    /\ (~isVercel /\ (last.shape \in {"badurl", "dir"} \/ last.envFail))
         => last.status = "false"
    /\ (~isVercel /\ last.target # NoRef /\ ~last.present0) => last.status = "false"
C9_Witness ==
  ~isVercel /\ last.op = "delete" /\ last.shape = "badurl" /\ last.status = "false"

\* C10: the backend is chosen once: with the remote backend selected no
\* directory is created, no file written or unlinked; with the local
\* backend selected no put() or del() is issued.
C10_BackendExclusive ==
  /\ isVercel =>
       /\ files = <<>> /\ dirs = Prefixes(join(cwd, <<>>))
       /\ last.unlinked = <<>>
       /\ \A c \in Calls : task[c].pc # "write"
  /\ ~isVercel =>
       /\ blobs = <<>> /\ last.attempts = <<>>
       /\ \A c \in Calls : task[c].pc \notin {"put", "del1", "del2", "delPath"}
C10_Witness ==
  /\ isVercel /\ Len(saved) >= 1 /\ last.op = "delete" /\ last.status = "true"

\* C11: a save that the environment failed (put() raised, mkdirSync raised,
\* the write stream reported an error) rejects with that error, returns no
\* reference and records nothing as saved; the operation that failed was
\* attempted once, and no save attempts an upload or a write twice.
C11_SaveNotRetried ==
  /\ (last.op = "save" /\ last.envFail) =>
       /\ last.status = "rejected" /\ last.ref = NoRef
       /\ \A i \in 1..Len(saved) : saved[i].key # last.key
       /\ IF isVercel
            THEN last.error = "upload failed" /\ last.tries = <<"put">>
            ELSE \/ last.error = "mkdir failed" /\ last.tries = <<"mkdir">>
                 \/ /\ last.error = "write failed"
                    /\ last.tries \in {<<"open">>, <<"mkdir", "open">>}
  /\ \A c \in Calls : Len(SelectSeq(task[c].tries, LAMBDA x : x # "mkdir")) <= 1
C11_Witness ==
  /\ isVercel /\ last.op = "save" /\ last.status = "rejected"
  /\ last.error = "upload failed" /\ last.tries = <<"put">>

\* C12: local backend: a save that returned the reference r has finished
\* its write, the file uploads/r is on disk, and r is the path
\* {category}/[{mediaType}/]{owner}/{uuid}{ext}, which does not begin with
\* uploads/.
C12_LocalSaveOrdering ==
  /\ (~isVercel /\ last.op = "save" /\ last.status = "resolved") =>
       /\ join(cwd, <<"uploads", "/">> \o last.ref) \in DOMAIN files
       /\ ~StartsWith(last.ref, <<"uploads", "/">>)
       /\ \E n \in 1..MaxIds :
            LET name == <<uuidv4(n)>> \o fileExtension(last.kind, FALSE, last.file,
                                                       last.mediaType, last.fileType)
            IN last.ref =
                 (IF last.kind = "instagram"
                    THEN <<"instagram-media", "/", last.mediaType, "/", last.owner, "/">>
                    ELSE <<CategoryDir(last.kind), "/", last.owner, "/">>) \o name
  /\ \A c \in Calls : task[c].pc = "write" => task[c].ref = NoRef
C12_Witness ==
  /\ ~isVercel /\ last.op = "save" /\ last.status = "resolved" /\ last.kind = "instagram"
  /\ last.tries = <<"mkdir", "open">>
  /\ join(cwd, <<"uploads", "/">> \o last.ref) \in DOMAIN files

C14_RemoteAttemptOrder ==
  /\ (isVercel /\ last.op = "delete" /\ startsWithHttp(last.arg)) =>
       /\ Len(last.attempts) \in {1, 2}
       /\ \A i \in 1..Len(saved) :
            last.arg = saved[i].ref => last.attempts[1] = saved[i].key
       /\ last.attempts[1] # last.arg =>
            StartsWith(last.arg, SubSeq(last.arg, 1, Len(last.arg) - Len(last.attempts[1])))
              /\ last.arg = SubSeq(last.arg, 1, Len(last.arg) - Len(last.attempts[1]))
                              \o last.attempts[1]
       /\ Len(last.attempts) = 2 => (last.attempts[2] = last.arg /\ last.raises >= 1)
       /\ (last.attempts[1] = last.arg) => Len(last.attempts) = 1
       /\ last.status = "true" <=> last.raises < Len(last.attempts)
  /\ \A c \in Calls :
       (task[c].op = "delete" /\ Running(c)) =>
         /\ Len(task[c].attempts) \in {1, 2}
         /\ task[c].raises = Len(task[c].attempts) - 1
C14_Witness ==
  /\ isVercel /\ last.op = "delete" /\ last.shape = "asis" /\ last.present0
  /\ Len(last.attempts) = 2 /\ last.raises = 1 /\ last.status = "true"
  /\ last.attempts = <<blobKeyOf(last.arg), last.arg>>

\* C15: every save, on either backend: when the original file name yields
\* no extension (it has no dot-suffix, or there is no name), the returned
\* reference ends in <uuid> followed by .jpg or .mp4; no save returns a
\* reference whose file name has no extension, and a missing name alone
\* makes no save fail.
C15_DefaultExtension ==
  /\ (last.op = "save" /\ last.status = "resolved") =>
       /\ lastToken(last.ref) \in ExtTokens
       /\ extname(last.file.originalname) \in {<<>>, Throw} =>
            lastToken(last.ref) \in {".jpg", ".mp4"}
  /\ (last.op = "save" /\ last.file.present /\ ~last.envFail) => last.status = "resolved"

\* the files on disk when the local delete recorded in last was called
fileBefore(p) ==
  p \in DOMAIN files \/ \E i \in 1..Len(last.unlinked) : last.unlinked[i] = p

\* the fallback list as stated: root + input, the input itself, root +
\* category + base name of the input
statedCandidates(arg, cat) ==
  << join(cwd, <<"uploads", "/">> \o arg),
     join(cwd, arg),
     join(cwd, <<"uploads", "/", cat, "/">> \o basename(arg)) >>

RECURSIVE firstFileBefore(_, _)
firstFileBefore(cands, i) ==
  IF i > Len(cands) THEN 0
  ELSE IF fileBefore(cands[i]) THEN i ELSE firstFileBefore(cands, i + 1)

\* C16: local backend, nothing at the normalized path: delete probes root +
\* original input, then the original input, then root + category + base
\* name of the input; it unlinks the first of these that exists, and only
\* that one, and returns true; it returns false when none exists.
C16_FallbackList ==
  (/\ ~isVercel /\ last.op = "delete" /\ ~falsy(last.arg) /\ ~last.envFail
   /\ localPathOf(last.arg, CategoryDir(last.kind)) # Throw
   /\ ~fileBefore(join(cwd, localPathOf(last.arg, CategoryDir(last.kind))))
   /\ join(cwd, localPathOf(last.arg, CategoryDir(last.kind))) \notin dirs)
    => LET cands == statedCandidates(last.arg, CategoryDir(last.kind))
           i == firstFileBefore(cands, 1)
       IN IF i = 0
            THEN last.status = "false" /\ last.unlinked = <<>>
            ELSE last.status = "true" /\ last.unlinked = <<cands[i]>>

\* C17: local backend: a delete changes the stored files by removing exactly
\* one file when it returns true, and leaves them as they are when it
\* returns false.
C17_AtMostOneUnlink ==
  [][(~isVercel /\ last' # last /\ last'.op = "delete") =>
       IF last'.status = "true"
         THEN /\ Len(last'.unlinked) = 1
              /\ last'.unlinked[1] \in DOMAIN files
              /\ DOMAIN files' = DOMAIN files \ {last'.unlinked[1]}
              /\ \A p \in DOMAIN files' : files'[p] = files[p]
         ELSE last'.status = "false" /\ last'.unlinked = <<>> /\ files' = files]_vars
C17_Witness ==
  /\ ~isVercel /\ last.op = "delete" /\ last.status = "true" /\ Len(last.unlinked) = 1
  /\ Len(saved) = 2 /\ Cardinality(DOMAIN files) = 1

\* the normalization as stated: URL -> its path, one leading slash off,
\* then the root put in front, with the category its first segment names
\* when that is a category directory, else with the operation's own
statedLocalPath(arg, cat) ==
  LET l1 == IF startsWithHttp(arg) THEN pathname(arg) ELSE arg IN
  IF l1 = Throw THEN Throw
  ELSE LET l2 == IF startsWithSlash(l1) THEN Tail(l1) ELSE l1 IN
    IF StartsWith(l2, <<"uploads", "/">>) THEN l2
    ELSE IF \E k \in Kinds : StartsWith(l2, <<CategoryDir(k), "/">>)
      THEN <<"uploads", "/">> \o l2
      ELSE <<"uploads", "/", cat, "/">> \o l2

\* C18: local backend: the first deletion attempt targets the path obtained
\* by (1) reducing a URL to its path, (2) stripping one leading slash, (3)
\* prefixing the root, with the category named by the first segment when it
\* is one of profile-images, property-images, instagram-media and the
\* operation's own otherwise: a file at that path is the one unlinked.
C18_NormalizationOrder ==
  (/\ ~isVercel /\ last.op = "delete" /\ ~falsy(last.arg) /\ ~last.envFail
   /\ statedLocalPath(last.arg, CategoryDir(last.kind)) # Throw
   /\ fileBefore(join(cwd, statedLocalPath(last.arg, CategoryDir(last.kind)))))
    => /\ last.status = "true"
       /\ last.unlinked = <<join(cwd, statedLocalPath(last.arg, CategoryDir(last.kind)))>>

\* C19: local backend: once the gateway is constructed, the upload root
\* and the directory of each category (profile-images, property-images,
\* instagram-media) exist.
C19_ConstructorDirs ==
  ~isVercel =>
    /\ join(cwd, <<"uploads">>) \in dirs
    /\ \A k \in Kinds : join(cwd, <<"uploads", "/", CategoryDir(k)>>) \in dirs

\* C20: remote backend: a save that resolved issued exactly one put(), of
\* the file's buffer, under the key profile-images/{userId}/{uuid}{ext},
\* property-images/{propertyId}/{uuid}{ext} or
\* instagram-media/{mediaType}/{userId}/{uuid}{ext}, with public access and
\* the file's declared content type; the blob holds the buffer and the
\* reference returned is the URL the store assigned to that key.
C20_RemoteSaveKey ==
  (isVercel /\ last.op = "save" /\ last.status = "resolved") =>
    /\ last.tries = <<"put">>
    /\ \E n \in 1..MaxIds :
         LET name == <<uuidv4(n)>> \o extname(last.file.originalname) IN
         last.put.key =
           (CASE last.kind = "profile" -> <<"profile-images", "/", last.owner, "/">>
              [] last.kind = "property" -> <<"property-images", "/", last.owner, "/">>
              [] last.kind = "instagram" ->
                   <<"instagram-media", "/", last.mediaType, "/", last.owner, "/">>) \o name
    /\ last.put.body = last.file.buffer
    /\ last.put.access = "public"
    /\ last.put.contentType = last.file.mimetype
    /\ last.ref = blobUrl(last.put.key)
    /\ last.put.key \in DOMAIN blobs /\ blobs[last.put.key] = last.file.buffer
C20_Witness ==
  /\ isVercel /\ last.op = "save" /\ last.status = "resolved" /\ last.kind = "instagram"
  /\ last.put.key = <<"instagram-media", "/", "reel", "/", "u1", "/", "id1", ".jpg">>
  /\ last.put.contentType = "image/jpeg"

\* C21: local backend: a reference a save returned, handed to any of the
\* three delete operations while its asset is stored, is enough to delete
\* the asset: the delete returns true and the asset is gone, whichever
\* category's delete was called.
C21_ReferenceSuffices ==
  (/\ ~isVercel /\ last.op = "delete" /\ last.shape \in {"asis", "cross"}
   /\ last.present0 /\ ~last.envFail)
    => (last.status = "true" /\ ~stored(storageKeyOfRef(last.target)))

\* C23: a delete-image request of either profile service that reached the
\* gateway (the database failing nothing): the profile's reference is
\* cleared, and success reported, exactly when the gateway delete returned
\* true; after false the profile is as it was and the answer is a failure;
\* and a reference whose asset was already missing when the request came
\* is not cleared.
C23_DeleteGated ==
  (/\ req.pc = "done" /\ req.op = "deleteImage" /\ req.del \in {"true", "false"}
   /\ req.db # "rejected")
    => /\ req.del = "true" <=> (profile = Null /\ req.success)
       /\ req.del = "false" => (profile = req.old /\ ~req.success)
       /\ ~req.oldPresent => (profile = req.old /\ profile # Null)

\* C25: an upload request whose save of the new image failed leaves the
\* profile holding the reference it held before, and the asset of that
\* reference in storage; whenever no request is being handled, a
\* profile_image that is not null names a stored asset.
C25_FailedReplacement ==
  /\ (req.pc = "done" /\ req.op = "upload" /\ req.save = "rejected") => profile = req.old
  /\ (req.pc \in {"idle", "done"} /\ ~falsy(profile)) => stored(storageKeyOfRef(profile))

C24_PathContainment ==
  ~isVercel =>
    /\ last.op = "delete" =>
         \A i \in 1..Len(last.unlinked) :
           StartsWith(last.unlinked[i], join(cwd, <<"uploads">>))
    /\ join(cwd, <<"package.json">>) \in DOMAIN files

\* C27: local backend, two delete calls in flight on the reference of a
\* stored file: each call runs to its end without yielding, so the calls
\* take effect one after the other; a call returns true exactly when the
\* file was there when it ran, and the file is gone after it; of two calls
\* on the same reference the first returns true and the second false, and
\* neither raises.
C27_ConcurrentDeletes ==
  [][(~isVercel /\ last' # last /\ last'.op = "delete" /\ last'.shape = "asis") =>
       LET k == storageKeyOfRef(last'.target) IN
       /\ last'.status \in {"true", "false"}
       /\ last'.status = "true" <=> k \in DOMAIN files
       /\ k \notin DOMAIN files'
       /\ last'.status = "true" => last'.unlinked = <<k>>
       /\ Len(chain'.dels) = 2 => chain'.dels = <<"true", "false">>]_vars
C27_Witness ==
  /\ ~isVercel /\ chain.ref # NoRef /\ chain.dels = <<"true", "false">>
  /\ last.op = "delete" /\ last.arg = chain.ref /\ ~last.present0
  /\ storageKeyOfRef(chain.ref) \in deleted

\* C22: a remove that found the record for the caller and whose deleteOne
\* did not fail deletes the record and returns {deleted: true}, whether the
\* storage delete returned true or false; the record delete is issued only
\* after the storage delete was issued and has settled.
removeFound == mreq.op = "remove" /\ mreq.url # NoRef
C26_NoOrphan ==
  mreq.pc \in {"idle", "done"} =>
    \A i \in 1..Len(saved) :
      stored(saved[i].key) => \E id \in DOMAIN media : media[id].url = saved[i].ref

\* C29: a remove with isAdmin false for a record that is not the caller's
\* (or for no record) ends at once, with NotFound when the lookup answered,
\* issues neither a storage delete nor a record delete, and leaves the
\* record in the collection; a non-admin remove that issued a delete was
\* called by the record's owner.
C29_RemoveOwnership ==
  (mreq.op = "remove" /\ ~mreq.isAdmin) =>
    /\ mreq.owner # mreq.caller =>
         /\ mreq.pc = "done"
         /\ mreq.result = (IF mreq.db = "rejected" THEN "BadRequest" ELSE "NotFound")
         /\ mreq.log = <<>>
         /\ mreq.del = "none"
         /\ ~Running("c1")
         /\ mreq.owner # "none" => mreq.id \in DOMAIN media
    /\ (mreq.log # <<>> \/ mreq.result = "deleted") => mreq.owner = mreq.caller
C29_Witness ==
  /\ mreq.op = "remove"
  /\ ~mreq.isAdmin
  /\ mreq.caller = "u2"
  /\ mreq.owner = "u1"
  /\ mreq.result = "NotFound"
  /\ mreq.id \in DOMAIN media
  /\ stored(storageKeyOfRef(media[mreq.id].url))

\* C30: a record enters the collection with status pending and no
\* moderation fields; every record with status approved has approved_by and
\* approved_at set, every record with status rejected has rejected_by and
\* rejected_at set; an updateStatus that ends with NotFound was given an id
\* of no record and changes no record.
C30_ModerationState ==
  [][/\ \A id \in DOMAIN media' \ DOMAIN media :
          /\ media'[id].status = "pending"
          /\ media'[id].approved_by = "none" /\ media'[id].approved_at = "none"
          /\ media'[id].rejected_by = "none" /\ media'[id].rejected_at = "none"
     /\ \A id \in DOMAIN media' :
          /\ media'[id].status \in Statuses
          /\ media'[id].status = "approved" =>
               media'[id].approved_by \in Admins /\ media'[id].approved_at # "none"
          /\ media'[id].status = "rejected" =>
               media'[id].rejected_by \in Admins /\ media'[id].rejected_at # "none"
     /\ (mreq'.op = "updateStatus" /\ mreq' # mreq) =>
          /\ (mreq'.id \notin DOMAIN media /\ mreq'.db # "rejected") <=>
               mreq'.result = "NotFound"
          /\ mreq'.result # "updated" => media' = media
    ]_vars
C30_Witness ==
  /\ mreq.op = "updateStatus"
  /\ mreq.result = "updated"
  /\ \E id \in DOMAIN media :
       /\ media[id].status = "rejected"
       /\ media[id].rejected_by = "admin1"
       /\ media[id].approved_by = "admin1"
====
